---- MODULE Spec2Model ----
(***************************************************************************)
(* Model of the migration runner of happy-server's standalone entry point  *)
(* (packages/happy-server/sources/standalone.ts).  A migrate run is a      *)
(* sequence of steps separated by the awaits of migrate(); the file system *)
(* (migration roots) and the backing store (tracking table, schema) are    *)
(* shared state that the environment changes between runs.                 *)
(***************************************************************************)
EXTENDS Integers, Sequences, FiniteSets, TLC

\* ---------------------------------------------------------------- bounds
MaxRuns == 3

\* ------------------------------------------------------------- vocabulary
\* Directory names as sequences of UTF-16 code units: "1", "10", "2".
Names == {<<49>>, <<49, 48>>, <<50>>}

\* prisma/migrations/migration_lock.toml, the plain file in every root ("m").
LockFile == <<109>>

\* What a name is in a root: no entry, a directory without migration.sql,
\* or a directory whose migration.sql runs, fails half-way or cannot be read.
Kinds == {"absent", "noscript", "ok", "bad", "unreadable"}

Procs == {"p1", "p2"}
SeqProcs == {"p1"}

Faults == {"none", "open", "insert"}

\* process.argv[2]: the two commands, the help flags, anything else, nothing.
Tokens == {"migrate", "serve", "--help", "-h", "frobnicate", "undefined"}

VARIABLES
    \* environment: file system and store health
    rootExists,     \* candidate -> the prisma/migrations directory exists
    units,          \* candidate -> name -> kind of the entry of that name
    storeFault,     \* which store operation currently fails
    \* backing store
    tableExists,    \* "_prisma_migrations" exists
    rows,           \* rows of "_prisma_migrations"
    nextId,         \* source of fresh row ids (crypto.randomUUID)
    schema,         \* <<name, k>> -> times statement k of name's script ran
    \* one migrate process
    pc, migrationsDirResolved, dirs, appliedSet, idx, sql,
    appliedCount, exitCode,
    \* bookkeeping
    trace,          \* what the run did, in order
    shuffled,       \* readdirSync returned the directories out of order
    startRows,      \* rows when the run started
    startSchema,    \* schema when the run started
    prev,           \* summary of the process's previous run
    runs,           \* processes started so far
    edited,         \* the environment changed since the last run
    \* command line and configuration
    command,        \* process.argv[2] of the process
    databaseUrl,    \* process.env.DATABASE_URL is set
    opened,         \* the store the process created and opened
    server          \* the store the server started by `serve` works on

envVars == <<rootExists, units, storeFault>>
storeVars == <<tableExists, rows, nextId, schema>>
procVars == <<pc, migrationsDirResolved, dirs, appliedSet, idx, sql,
              appliedCount, exitCode>>
histVars == <<trace, shuffled, startRows, startSchema, prev, runs, edited>>
cliVars == <<command, databaseUrl, opened, server>>
vars == <<envVars, storeVars, procVars, histVars, cliVars>>

\* ---------------------------------------------------------------- helpers
\* path.join(process.cwd(), ...), path.join(path.dirname(process.execPath), ...)
candidates == <<"cwd", "exec">>

Candidates == {candidates[i] : i \in 1..Len(candidates)}

\* String comparison of Array.prototype.sort(): by code units, a proper
\* prefix sorts first.
RECURSIVE StrLess(_, _)
StrLess(a, b) ==
    IF b = <<>> THEN FALSE
    ELSE IF a = <<>> THEN TRUE
    ELSE IF a[1] < b[1] THEN TRUE
    ELSE IF a[1] > b[1] THEN FALSE
    ELSE StrLess(Tail(a), Tail(b))

RECURSIVE InsertSorted(_, _)
InsertSorted(x, s) ==
    IF s = <<>> THEN <<x>>
    ELSE IF StrLess(x, Head(s)) THEN <<x>> \o s
    ELSE <<Head(s)>> \o InsertSorted(x, Tail(s))

SortNamesAsListed(s) == s

RECURSIVE SortNames(_)
SortNames(s) ==
    IF s = <<>> THEN <<>> ELSE InsertSorted(Head(s), SortNames(Tail(s)))

\* .filter(d => fs.statSync(path.join(root, d)).isDirectory())
IsDirectory(n) == n # LockFile

RECURSIVE FilterDirs(_)
FilterDirs(s) ==
    IF s = <<>> THEN <<>>
    ELSE IF IsDirectory(Head(s))
         THEN <<Head(s)>> \o FilterDirs(Tail(s))
         ELSE FilterDirs(Tail(s))

\* The orders in which fs.readdirSync may return the entries of root c.
Entries(c) == {n \in Names : units[c][n] # "absent"} \cup {LockFile}

Listings(c) ==
    {s \in [1..Cardinality(Entries(c)) -> Entries(c)] :
        \A i, j \in DOMAIN s : i # j => s[i] # s[j]}

HasScriptAlways(c, n) == TRUE

\* fs.existsSync(path.join(root, dir, "migration.sql"))
HasScript(c, n) == units[c][n] \in {"ok", "bad", "unreadable"}

\* The text of migration.sql as the batch of statements it holds.
ScriptText(n, kind) ==
    IF kind = "ok"
    THEN <<[unit |-> n, k |-> 1, fails |-> FALSE], [unit |-> n, k |-> 2, fails |-> FALSE]>>
    ELSE <<[unit |-> n, k |-> 1, fails |-> FALSE], [unit |-> n, k |-> 2, fails |-> TRUE]>>

Stmts == Names \X {1, 2}

\* pg.exec(sql): statements run in order; the first failing one throws and
\* the effects of those before it stay.
RECURSIVE GoodPrefix(_)
GoodPrefix(batch) ==
    IF batch = <<>> \/ Head(batch).fails THEN 0
    ELSE 1 + GoodPrefix(Tail(batch))

BatchFails(batch) == GoodPrefix(batch) < Len(batch)

SchemaAfterRollback(sch, batch) ==
    [st \in Stmts |->
        IF ~BatchFails(batch) /\ \E i \in 1..Len(batch) :
                batch[i].unit = st[1] /\ batch[i].k = st[2]
        THEN sch[st] + 1 ELSE sch[st]]

SchemaAfter(sch, batch) ==
    [st \in Stmts |->
        IF \E i \in 1..GoodPrefix(batch) :
                batch[i].unit = st[1] /\ batch[i].k = st[2]
        THEN sch[st] + 1 ELSE sch[st]]

AppliedNamesUnfinished(rs) == {r.migration_name : r \in {q \in rs : ~q.finished_at}}

\* SELECT "migration_name" ... WHERE "finished_at" IS NOT NULL
AppliedNames(rs) == {r.migration_name : r \in {q \in rs : q.finished_at}}

UniqueViolationNever(rs, n) == FALSE

\* "migration_name" TEXT NOT NULL UNIQUE
UniqueViolation(rs, n) == \E r \in rs : r.migration_name = n

Ev(op, n) == [op |-> op, unit |-> n]

NoRun == [exitCode |-> -1, trace |-> <<>>, rows |-> {}, schema |-> [st \in Stmts |-> 0],
          units |-> [n \in Names |-> "absent"], root |-> "", fault |-> "none",
          rootExists |-> [c \in Candidates |-> FALSE]]

EmptyRoot == [n \in Names |-> "absent"]

\* The prisma/migrations next to the executable: the one unit "2".
ExecRoot == [n \in Names |-> IF n = <<50>> THEN "ok" ELSE "absent"]

\* The migration roots a deployment starts with.
InitRoots == [Names -> {"absent", "noscript", "ok", "bad"}]

Quiet == \A p \in Procs : pc[p] \in {"idle", "done"}

\* ------------------------------------------------------------------- Init
InitProcess ==
    /\ rootExists = [c \in Candidates |-> c = "cwd"]
    /\ storeFault = "none"
    /\ tableExists = FALSE
    /\ rows = {}
    /\ nextId = 1
    /\ schema = [st \in Stmts |-> 0]
    /\ pc = [p \in Procs |-> "idle"]
    /\ migrationsDirResolved = [p \in Procs |-> ""]
    /\ dirs = [p \in Procs |-> <<>>]
    /\ appliedSet = [p \in Procs |-> {}]
    /\ idx = [p \in Procs |-> 1]
    /\ sql = [p \in Procs |-> <<>>]
    /\ appliedCount = [p \in Procs |-> 0]
    /\ exitCode = [p \in Procs |-> -1]
    /\ trace = [p \in Procs |-> <<>>]
    /\ shuffled = [p \in Procs |-> FALSE]
    /\ startRows = [p \in Procs |-> {}]
    /\ startSchema = [p \in Procs |-> [st \in Stmts |-> 0]]
    /\ prev = [p \in Procs |-> NoRun]
    /\ runs = 0
    /\ edited = FALSE
    /\ command = [p \in Procs |-> "undefined"]
    /\ opened = [p \in Procs |-> "none"]
    /\ server = [p \in Procs |-> "off"]

\* The standalone deployment: a fresh embedded store, no DATABASE_URL.
Init ==
    /\ InitProcess
    /\ units \in {[c \in Candidates |-> IF c = "cwd" THEN u ELSE ExecRoot] :
                    u \in InitRoots}
    /\ databaseUrl = FALSE

\* What a finished run leaves behind for the next one to be compared with.
Summary(p) ==
    [exitCode |-> exitCode[p], trace |-> trace[p], rows |-> rows, schema |-> schema,
     units |-> units, rootExists |-> rootExists, fault |-> storeFault,
     root |-> migrationsDirResolved[p]]

\* ------------------------------------------------------------ environment
\* Between two runs one thing changes: the operator edits the migration
\* root, the store becomes (un)available, or another tool leaves an
\* unfinished row behind.  A run that has ended is then no longer the latest
\* word on the environment.
Retire ==
    /\ Quiet
    /\ 0 < runs /\ runs < MaxRuns
    /\ ~edited
    /\ edited' = TRUE
    /\ pc' = [p \in Procs |-> IF pc[p] = "done" THEN "idle" ELSE pc[p]]
    /\ prev' = [p \in Procs |-> IF pc[p] = "done" THEN Summary(p) ELSE prev[p]]
    /\ UNCHANGED <<migrationsDirResolved, dirs, appliedSet, idx, sql,
                   appliedCount, exitCode, trace, shuffled, startRows,
                   startSchema, runs, cliVars>>

\* migration.sql of unit n is repaired.
EnvFixScript(n) ==
    /\ units["cwd"][n] \in {"bad", "unreadable"}
    /\ units' = [units EXCEPT !["cwd"][n] = "ok"]
    /\ Retire
    /\ UNCHANGED <<rootExists, storeFault, storeVars>>

\* migration.sql of unit n can no longer be read (permissions, a directory
\* in its place).
EnvBreakScript(n) ==
    /\ units["cwd"][n] = "ok"
    /\ units' = [units EXCEPT !["cwd"][n] = "unreadable"]
    /\ Retire
    /\ UNCHANGED <<rootExists, storeFault, storeVars>>

\* A new migration directory n is authored, its script good or bad.
EnvAddUnit(n, k) ==
    /\ units["cwd"][n] = "absent"
    /\ k \in {"ok", "bad"}
    /\ units' = [units EXCEPT !["cwd"][n] = k]
    /\ Retire
    /\ UNCHANGED <<rootExists, storeFault, storeVars>>

\* A candidate prisma/migrations directory appears or disappears.
EnvSetRoot(c) ==
    /\ rootExists' = [rootExists EXCEPT ![c] = ~rootExists[c]]
    /\ Retire
    /\ UNCHANGED <<units, storeFault, storeVars>>

EnvSetFault(f) ==
    /\ storeFault # f
    /\ storeFault' = f
    /\ Retire
    /\ UNCHANGED <<rootExists, units, storeVars>>

\* A row with finished_at NULL, written by something other than migrate().
EnvUnfinishedRow(n) ==
    /\ tableExists
    /\ ~UniqueViolation(rows, n)
    /\ rows' = rows \cup {[id |-> nextId, migration_name |-> n, finished_at |-> FALSE]}
    /\ nextId' = nextId + 1
    /\ Retire
    /\ UNCHANGED <<envVars, tableExists, schema>>

\* ---------------------------------------------------------------- migrate
TerminateZero(p, code) ==
    /\ pc' = [pc EXCEPT ![p] = "done"]
    /\ exitCode' = [exitCode EXCEPT ![p] = 0]

\* process.exit(code), or the end of the process after migrate() returned.
Terminate(p, code) ==
    /\ pc' = [pc EXCEPT ![p] = "done"]
    /\ exitCode' = [exitCode EXCEPT ![p] = code]

Log(p, op, n) == trace' = [trace EXCEPT ![p] = Append(@, Ev(op, n))]

\* `happy-server migrate`: a new process, module constants evaluated.
Start(p) ==
    /\ pc[p] \in {"idle", "done"}
    /\ runs < MaxRuns
    /\ runs' = runs + 1
    /\ pc' = [pc EXCEPT ![p] = "open"]
    /\ prev' = [prev EXCEPT ![p] = IF pc[p] = "done" THEN Summary(p) ELSE @]
    /\ migrationsDirResolved' = [migrationsDirResolved EXCEPT ![p] = ""]
    /\ dirs' = [dirs EXCEPT ![p] = <<>>]
    /\ appliedSet' = [appliedSet EXCEPT ![p] = {}]
    /\ idx' = [idx EXCEPT ![p] = 1]
    /\ sql' = [sql EXCEPT ![p] = <<>>]
    /\ appliedCount' = [appliedCount EXCEPT ![p] = 0]
    /\ exitCode' = [exitCode EXCEPT ![p] = -1]
    /\ trace' = [trace EXCEPT ![p] = <<>>]
    /\ shuffled' = [shuffled EXCEPT ![p] = FALSE]
    /\ edited' = FALSE
    /\ startRows' = [startRows EXCEPT ![p] = rows]
    /\ startSchema' = [startSchema EXCEPT ![p] = schema]
    /\ command' = [command EXCEPT ![p] = "migrate"]
    /\ opened' = [opened EXCEPT ![p] = "none"]
    /\ UNCHANGED <<envVars, storeVars, databaseUrl, server>>

\* const pgliteDir = process.env.PGLITE_DIR || path.join(dataDir, "pglite"):
\* the store of migrate() is the embedded one, whatever DATABASE_URL is.
MigrateStore(dbUrl) == "pglite"

\* fs.mkdirSync(pgliteDir) and createPGlite(pgliteDir); a throw rejects
\* migrate() and the .catch of the CLI switch exits with 1.
OpenStore(p) ==
    /\ pc[p] = "open"
    /\ IF storeFault = "open"
       THEN /\ Log(p, "openFail", <<>>)
            /\ Terminate(p, 1)
            /\ UNCHANGED opened
       ELSE /\ pc' = [pc EXCEPT ![p] = "ensure"]
            /\ opened' = [opened EXCEPT ![p] = MigrateStore(databaseUrl)]
            /\ UNCHANGED <<exitCode, trace>>
    /\ UNCHANGED <<command, databaseUrl, server, envVars, storeVars, migrationsDirResolved, dirs,
                   appliedSet, idx, sql, appliedCount, shuffled, startRows,
                   startSchema, prev, runs, edited>>

CreateTableAfresh(rs) == {}

\* CREATE TABLE IF NOT EXISTS "_prisma_migrations": an existing table keeps
\* its rows.
CreateTableIfNotExists(rs) == rs

EnsureTable(p) ==
    /\ pc[p] = "ensure"
    /\ tableExists' = TRUE
    /\ rows' = CreateTableIfNotExists(rows)
    /\ pc' = [pc EXCEPT ![p] = "resolve"]
    /\ UNCHANGED <<cliVars, envVars, nextId, schema, migrationsDirResolved, dirs,
                   appliedSet, idx, sql, appliedCount, exitCode, histVars>>

LastExisting(cs) ==
    IF \E i \in DOMAIN cs : rootExists[cs[i]]
    THEN cs[CHOOSE i \in DOMAIN cs :
                rootExists[cs[i]] /\ \A j \in DOMAIN cs : j > i => ~rootExists[cs[j]]]
    ELSE ""

\* for (const candidate of candidates) if (fs.existsSync(candidate)) ... break
RECURSIVE FirstExisting(_)
FirstExisting(cs) ==
    IF cs = <<>> THEN ""
    ELSE IF rootExists[Head(cs)] THEN Head(cs)
    ELSE FirstExisting(Tail(cs))

ResolveRoot(p) ==
    /\ pc[p] = "resolve"
    /\ migrationsDirResolved' = [migrationsDirResolved EXCEPT ![p] = FirstExisting(candidates)]
    /\ IF FirstExisting(candidates) = ""
       THEN /\ Log(p, "rootFail", <<>>)
            /\ Terminate(p, 1)
       ELSE /\ pc' = [pc EXCEPT ![p] = "list"]
            /\ UNCHANGED <<exitCode, trace>>
    /\ UNCHANGED <<cliVars, envVars, storeVars, dirs, appliedSet, idx, sql,
                   appliedCount, shuffled, startRows, startSchema, prev, runs,
                   edited>>

\* fs.readdirSync(root).filter(isDirectory).sort()
ListDirs(p) ==
    /\ pc[p] = "list"
    /\ \E l \in Listings(migrationsDirResolved[p]) :
         /\ dirs' = [dirs EXCEPT ![p] = SortNames(FilterDirs(l))]
         /\ shuffled' = [shuffled EXCEPT ![p] = FilterDirs(l) # SortNames(FilterDirs(l))]
    /\ pc' = [pc EXCEPT ![p] = "query"]
    /\ UNCHANGED <<cliVars, envVars, storeVars, migrationsDirResolved, appliedSet, idx, sql,
                   appliedCount, exitCode, trace, startRows, startSchema, prev,
                   runs, edited>>

\* const appliedSet = new Set(applied.rows.map(r => r.migration_name))
QueryAppliedAll(p) ==
    /\ pc[p] = "query"
    /\ appliedSet' = [appliedSet EXCEPT ![p] = {r.migration_name : r \in rows}]
    /\ appliedCount' = [appliedCount EXCEPT ![p] = 0]
    /\ pc' = [pc EXCEPT ![p] = "loop"]
    /\ UNCHANGED <<cliVars, envVars, storeVars, migrationsDirResolved, dirs, idx,
                   sql, exitCode, histVars>>

QueryApplied(p) ==
    /\ pc[p] = "query"
    /\ appliedSet' = [appliedSet EXCEPT ![p] = AppliedNames(rows)]
    /\ appliedCount' = [appliedCount EXCEPT ![p] = 0]
    /\ pc' = [pc EXCEPT ![p] = "loop"]
    /\ UNCHANGED <<cliVars, envVars, storeVars, migrationsDirResolved, dirs, idx,
                   sql, exitCode, histVars>>

InLoop(p) == pc[p] = "loop" /\ idx[p] <= Len(dirs[p])

DirDescending(p) == dirs[p][Len(dirs[p]) + 1 - idx[p]]

\* for (const dir of dirs)
Dir(p) == dirs[p][idx[p]]

IsAppliedNever(p) == FALSE

\* appliedSet.has(dir)
IsApplied(p) == Dir(p) \in appliedSet[p]

\* fs.readFileSync(sqlFile, "utf-8") returns the text
Readable(c, n) == units[c][n] \in {"ok", "bad"}

\* if (appliedSet.has(dir)) continue;
SkipApplied(p) ==
    /\ InLoop(p)
    /\ IsApplied(p)
    /\ idx' = [idx EXCEPT ![p] = @ + 1]
    /\ Log(p, "skipApplied", Dir(p))
    /\ UNCHANGED <<cliVars, envVars, storeVars, pc, migrationsDirResolved, dirs,
                   appliedSet, sql, appliedCount, exitCode, shuffled,
                   startRows, startSchema, prev, runs, edited>>

\* if (!fs.existsSync(sqlFile)) continue;
SkipNoScript(p) ==
    /\ InLoop(p)
    /\ ~IsApplied(p)
    /\ ~HasScript(migrationsDirResolved[p], Dir(p))
    /\ idx' = [idx EXCEPT ![p] = @ + 1]
    /\ Log(p, "skipNoScript", Dir(p))
    /\ UNCHANGED <<cliVars, envVars, storeVars, pc, migrationsDirResolved, dirs,
                   appliedSet, sql, appliedCount, exitCode, shuffled,
                   startRows, startSchema, prev, runs, edited>>

\* const sql = fs.readFileSync(sqlFile, "utf-8"), outside the try: a throw
\* rejects migrate() and the .catch of the CLI switch exits with 1.
ReadScriptSkipUnreadable(p) ==
    /\ InLoop(p)
    /\ ~IsApplied(p)
    /\ HasScript(migrationsDirResolved[p], Dir(p))
    /\ IF ~Readable(migrationsDirResolved[p], Dir(p))
       THEN /\ Log(p, "readFail", Dir(p))
            /\ idx' = [idx EXCEPT ![p] = @ + 1]
            /\ UNCHANGED <<sql, pc, exitCode>>
       ELSE /\ Log(p, "read", Dir(p))
            /\ sql' = [sql EXCEPT ![p] =
                         ScriptText(Dir(p), units[migrationsDirResolved[p]][Dir(p)])]
            /\ pc' = [pc EXCEPT ![p] = "exec"]
            /\ UNCHANGED <<exitCode, idx>>
    /\ UNCHANGED <<cliVars, envVars, storeVars, migrationsDirResolved, dirs,
                   appliedSet, appliedCount, shuffled, startRows, startSchema,
                   prev, runs, edited>>

ReadScript(p) ==
    /\ InLoop(p)
    /\ ~IsApplied(p)
    /\ HasScript(migrationsDirResolved[p], Dir(p))
    /\ IF ~Readable(migrationsDirResolved[p], Dir(p))
       THEN /\ Log(p, "readFail", Dir(p))
            /\ Terminate(p, 1)
            /\ UNCHANGED sql
       ELSE /\ Log(p, "read", Dir(p))
            /\ sql' = [sql EXCEPT ![p] =
                         ScriptText(Dir(p), units[migrationsDirResolved[p]][Dir(p)])]
            /\ pc' = [pc EXCEPT ![p] = "exec"]
            /\ UNCHANGED exitCode
    /\ UNCHANGED <<cliVars, envVars, storeVars, migrationsDirResolved, dirs,
                   appliedSet, idx, appliedCount, shuffled, startRows, startSchema,
                   prev, runs, edited>>

ExecScriptNoAbort(p) ==
    /\ pc[p] = "exec"
    /\ schema' = SchemaAfter(schema, sql[p])
    /\ Log(p, IF BatchFails(sql[p]) THEN "execFail" ELSE "exec", Dir(p))
    /\ pc' = [pc EXCEPT ![p] = "insert"]
    /\ UNCHANGED <<cliVars, envVars, tableExists, rows, nextId, migrationsDirResolved,
                   dirs, appliedSet, idx, sql, appliedCount, exitCode, shuffled,
                   startRows, startSchema, prev, runs, edited>>

\* await pg.exec(sql); the catch logs and exits with 1.
ExecScript(p) ==
    /\ pc[p] = "exec"
    /\ schema' = SchemaAfter(schema, sql[p])
    /\ IF BatchFails(sql[p])
       THEN /\ Log(p, "execFail", Dir(p))
            /\ Terminate(p, 1)
       ELSE /\ Log(p, "exec", Dir(p))
            /\ pc' = [pc EXCEPT ![p] = "insert"]
            /\ UNCHANGED exitCode
    /\ UNCHANGED <<cliVars, envVars, tableExists, rows, nextId, migrationsDirResolved,
                   dirs, appliedSet, idx, sql, appliedCount, shuffled,
                   startRows, startSchema, prev, runs, edited>>

\* INSERT INTO "_prisma_migrations" (id, migration_name, finished_at, ...)
\* VALUES (randomUUID(), dir, now(), 1); appliedCount++
RecordAppliedNoCount(p) ==
    /\ Log(p, "insert", Dir(p))
    /\ rows' = rows \cup {[id |-> nextId, migration_name |-> Dir(p),
                           finished_at |-> TRUE]}
    /\ nextId' = nextId + 1
    /\ UNCHANGED appliedCount

RecordApplied(p) ==
    /\ Log(p, "insert", Dir(p))
    /\ rows' = rows \cup {[id |-> nextId, migration_name |-> Dir(p),
                           finished_at |-> TRUE]}
    /\ nextId' = nextId + 1
    /\ appliedCount' = [appliedCount EXCEPT ![p] = @ + 1]

InsertFailsStale(p) == storeFault = "insert" \/ Dir(p) \in appliedSet[p]

\* The INSERT is rejected: by a store error, or by the UNIQUE index on
\* migration_name, which the store checks against the table as it is now.
InsertFails(p) == storeFault = "insert" \/ UniqueViolation(rows, Dir(p))

InsertRecordUpsert(p) ==
    /\ pc[p] = "insert"
    /\ IF storeFault = "insert"
       THEN /\ Log(p, "insertFail", Dir(p))
            /\ Terminate(p, 1)
            /\ UNCHANGED <<rows, nextId, appliedCount, idx>>
       ELSE /\ Log(p, "insert", Dir(p))
            /\ rows' = {r \in rows : r.migration_name # Dir(p)} \cup
                         {[id |-> nextId, migration_name |-> Dir(p), finished_at |-> TRUE]}
            /\ nextId' = nextId + 1
            /\ appliedCount' = [appliedCount EXCEPT ![p] = @ + 1]
            /\ idx' = [idx EXCEPT ![p] = @ + 1]
            /\ pc' = [pc EXCEPT ![p] = "loop"]
            /\ UNCHANGED exitCode
    /\ UNCHANGED <<cliVars, envVars, tableExists, schema, migrationsDirResolved, dirs,
                   appliedSet, sql, shuffled, startRows, startSchema, prev,
                   runs, edited>>

InsertRecord(p) ==
    /\ pc[p] = "insert"
    /\ IF InsertFails(p)
       THEN /\ Log(p, "insertFail", Dir(p))
            /\ Terminate(p, 1)
            /\ UNCHANGED <<rows, nextId, appliedCount, idx>>
       ELSE /\ RecordApplied(p)
            /\ idx' = [idx EXCEPT ![p] = @ + 1]
            /\ pc' = [pc EXCEPT ![p] = "loop"]
            /\ UNCHANGED exitCode
    /\ UNCHANGED <<cliVars, envVars, tableExists, schema, migrationsDirResolved, dirs,
                   appliedSet, sql, shuffled, startRows, startSchema, prev,
                   runs, edited>>

\* The loop is over: the count is logged, pg.close(), the process ends.
Finish(p) ==
    /\ pc[p] = "loop"
    /\ idx[p] > Len(dirs[p])
    /\ Terminate(p, 0)
    /\ UNCHANGED <<cliVars, envVars, storeVars, migrationsDirResolved, dirs,
                   appliedSet, idx, sql, appliedCount, histVars>>

\* ------------------------------------------------------------- dispatcher
UsageExitAlwaysOne(tok) == 1

\* process.exit(command === "--help" || command === "-h" ? 0 : 1)
UsageExit(tok) == IF tok = "--help" \/ tok = "-h" THEN 0 ELSE 1

\* default: of the CLI switch: the usage text is printed and the process
\* exits; nothing else of the module runs.
Usage(p, tok) ==
    /\ tok \notin {"migrate", "serve"}
    /\ pc[p] \in {"idle", "done"}
    /\ runs < MaxRuns
    /\ runs' = runs + 1
    /\ command' = [command EXCEPT ![p] = tok]
    /\ prev' = [prev EXCEPT ![p] = IF pc[p] = "done" THEN Summary(p) ELSE @]
    /\ migrationsDirResolved' = [migrationsDirResolved EXCEPT ![p] = ""]
    /\ dirs' = [dirs EXCEPT ![p] = <<>>]
    /\ appliedSet' = [appliedSet EXCEPT ![p] = {}]
    /\ idx' = [idx EXCEPT ![p] = 1]
    /\ sql' = [sql EXCEPT ![p] = <<>>]
    /\ appliedCount' = [appliedCount EXCEPT ![p] = 0]
    /\ trace' = [trace EXCEPT ![p] = <<Ev("usage", <<>>)>>]
    /\ shuffled' = [shuffled EXCEPT ![p] = FALSE]
    /\ edited' = FALSE
    /\ startRows' = [startRows EXCEPT ![p] = rows]
    /\ startSchema' = [startSchema EXCEPT ![p] = schema]
    /\ opened' = [opened EXCEPT ![p] = "none"]
    /\ Terminate(p, UsageExit(tok))
    /\ UNCHANGED <<envVars, storeVars, databaseUrl, server>>

\* What ./main works on: the external database when DATABASE_URL is set
\* ("uses external Postgres instead of PGlite"), else the embedded store at
\* the PGLITE_DIR that serve() passes on.
ServeStore(dbUrl) == IF dbUrl THEN "external" ELSE "pglite"

\* case "serve": serve() sets PGLITE_DIR unless DATABASE_URL is set and
\* imports ./main, which starts the server.
Serve(p) ==
    /\ server[p] = "off"
    /\ server' = [server EXCEPT ![p] = ServeStore(databaseUrl)]
    /\ UNCHANGED <<envVars, storeVars, procVars, histVars, command, databaseUrl,
                   opened>>

\* ------------------------------------------------------------- deployment
AndThenAlways(code) == TRUE

\* `migrate && exec ... serve` of the image's CMD: sh runs the right-hand
\* side only when the left-hand side ended with status 0.
AndThen(code) == code = 0

\* The right-hand side of the CMD, in the container whose migrate has ended.
CmdServe(p) ==
    /\ pc[p] = "done"
    /\ command[p] = "migrate"
    /\ AndThen(exitCode[p])
    /\ Serve(p)

\* The container is stopped; its next start runs the CMD from the beginning.
ContainerStop(p) ==
    /\ server[p] # "off"
    /\ runs < MaxRuns
    /\ server' = [server EXCEPT ![p] = "off"]
    /\ UNCHANGED <<envVars, storeVars, procVars, histVars, command, databaseUrl,
                   opened>>

\* ------------------------------------------------------------- properties
\* Vocabulary of the properties, stated apart from the operators of the model.
LexBefore(a, b) ==
    \E k \in 0..Len(a) :
        /\ k <= Len(b)
        /\ \A i \in 1..k : a[i] = b[i]
        /\ \/ k = Len(a) /\ k < Len(b)
           \/ k < Len(a) /\ k < Len(b) /\ a[k + 1] < b[k + 1]

FinishedNames(rs) == {n \in Names : \E r \in rs : r.migration_name = n /\ r.finished_at = TRUE}

RowsOf(rs, n) == {r \in rs : r.migration_name = n}

ScriptBearing(c) == {n \in Names : units[c][n] \in {"ok", "bad", "unreadable"}}

ExecOps == {"exec", "execFail"}

UnitFailOps == {"readFail", "execFail", "insertFail"}

FailOps == UnitFailOps \cup {"openFail", "rootFail"}

Ops(p, ops) == {i \in DOMAIN trace[p] : trace[p][i].op \in ops}

Did(p, op, n) == \E i \in DOMAIN trace[p] : trace[p][i] = Ev(op, n)

\* C1: within one run scripts are executed in strictly ascending lexical
\* order of the unit ids, whatever order the directory listing had: of two
\* units executed in the run, the lexically smaller one is executed and
\* recorded before the execution of the larger one starts.
C1_LexicalOrder ==
    \A p \in Procs : \A i, j \in Ops(p, ExecOps) :
        i < j =>
            /\ LexBefore(trace[p][i].unit, trace[p][j].unit)
            /\ \E k \in (i + 1)..(j - 1) : trace[p][k] = Ev("insert", trace[p][i].unit)

\* "10" and then "2" were executed in a run whose listing was out of order.
C1_Witness ==
    \E p \in Procs :
        /\ pc[p] = "done"
        /\ shuffled[p]
        /\ \E i, j \in Ops(p, ExecOps) :
             i < j /\ trace[p][i].unit = <<49, 48>> /\ trace[p][j].unit = <<50>>

\* C2: a unit with a finished record when a run starts is, in that run, only
\* ever skipped: its script is not read or executed and its rows in the
\* tracking table stay what they were.
C2_AppliedNotReexecuted ==
    \A p \in Procs : \A n \in FinishedNames(startRows[p]) :
        /\ \A i \in DOMAIN trace[p] :
             trace[p][i].unit = n => trace[p][i].op = "skipApplied"
        /\ RowsOf(rows, n) = RowsOf(startRows[p], n)

\* A run that skipped an applied unit and applied another one.
C2_Witness ==
    \E p \in Procs :
        /\ pc[p] = "done"
        /\ \E i, j \in DOMAIN trace[p] :
             /\ trace[p][i].op = "skipApplied"
             /\ trace[p][i].unit \in FinishedNames(startRows[p])
             /\ trace[p][j].op = "insert"

SameEnv(s) == s.units = units /\ s.rootExists = rootExists /\ s.fault = storeFault

\* C3: a run that follows a successful run, with the store and the
\* environment as that run left them, reads and executes no script, inserts
\* no row, leaves the store as it was, counts zero and exits with 0.
C3_Idempotent ==
    \A p \in Procs :
        (/\ pc[p] = "done"
         /\ prev[p].exitCode = 0
         /\ SameEnv(prev[p])
         /\ startRows[p] = prev[p].rows
         /\ startSchema[p] = prev[p].schema)
        => /\ Ops(p, {"read", "readFail", "exec", "execFail", "insert", "insertFail"}) = {}
           /\ rows = prev[p].rows
           /\ schema = prev[p].schema
           /\ appliedCount[p] = 0
           /\ exitCode[p] = 0

\* The second of two runs, the first of which applied something.
C3_Witness ==
    \E p \in Procs :
        /\ pc[p] = "done"
        /\ prev[p].exitCode = 0
        /\ SameEnv(prev[p])
        /\ startRows[p] = prev[p].rows
        /\ \E i \in DOMAIN prev[p].trace : prev[p].trace[i].op = "insert"
        /\ exitCode[p] = 0

\* C4: a failure to read, execute or record unit X is the last thing the run
\* does and ends it with status 1; no later unit is touched, X is not
\* applied and got no row, and what the run recorded before stays recorded.
C4_AbortOnFirstFailure ==
    \A p \in Procs : \A i \in Ops(p, UnitFailOps) :
        /\ i = Len(trace[p])
        /\ pc[p] \in {"done", "idle"}
        /\ exitCode[p] = 1
        /\ \A j \in DOMAIN trace[p] : ~LexBefore(trace[p][i].unit, trace[p][j].unit)
        /\ pc[p] = "done" =>
             /\ trace[p][i].unit \notin FinishedNames(rows)
             /\ RowsOf(rows, trace[p][i].unit) = RowsOf(startRows[p], trace[p][i].unit)
             /\ \A j \in Ops(p, {"insert"}) : trace[p][j].unit \in FinishedNames(rows)

\* The script of a unit failed after an earlier unit was recorded in the run
\* and while a later unit with a script was still to be applied.
C4_Witness ==
    \E p \in Procs :
        /\ pc[p] = "done"
        /\ \E i \in Ops(p, {"execFail"}) :
             /\ \E j \in Ops(p, {"insert"}) : j < i
             /\ \E n \in ScriptBearing(migrationsDirResolved[p]) :
                  LexBefore(trace[p][i].unit, n) /\ n \notin FinishedNames(rows)

\* The units a run executed (started the script of) and recorded, in order.
RECURSIVE UnitsOf(_, _)
UnitsOf(tr, ops) ==
    IF tr = <<>> THEN <<>>
    ELSE IF Head(tr).op \in ops THEN <<Head(tr).unit>> \o UnitsOf(Tail(tr), ops)
    ELSE UnitsOf(Tail(tr), ops)

Range(f) == {f[i] : i \in DOMAIN f}

Ascending(f) == \A i, j \in DOMAIN f : i < j => LexBefore(f[i], f[j])

\* The run of p follows a run that aborted on the script of F, and since
\* then nothing changed but that script, which is now good.
ResumesAfterFix(p, F) ==
    /\ pc[p] = "done"
    /\ prev[p].exitCode = 1
    /\ prev[p].trace # <<>>
    /\ prev[p].trace[Len(prev[p].trace)] = Ev("execFail", F)
    /\ prev[p].units["cwd"][F] = "bad"
    /\ units = [prev[p].units EXCEPT !["cwd"][F] = "ok"]
    /\ rootExists = prev[p].rootExists
    /\ storeFault = prev[p].fault
    /\ startRows[p] = prev[p].rows
    /\ startSchema[p] = prev[p].schema

PendingFrom(p, F) ==
    {F} \cup {n \in ScriptBearing(migrationsDirResolved[p]) :
                LexBefore(F, n) /\ n \notin FinishedNames(prev[p].rows)}

C6_AppliedMonotone ==
    [][/\ FinishedNames(rows) \subseteq FinishedNames(rows')
       /\ \A r \in rows : r.finished_at = TRUE => r \in rows']_vars

\* A failed run ended with the units applied before it still applied and
\* one more applied by itself.
C6_Witness ==
    \E p \in Procs :
        /\ pc[p] = "done"
        /\ exitCode[p] = 1
        /\ FinishedNames(startRows[p]) # {}
        /\ FinishedNames(startRows[p]) \subseteq FinishedNames(rows)
        /\ FinishedNames(rows) # FinishedNames(startRows[p])

\* C7: the tracking table never holds two rows with the same migration name.
C7_OneRowPerName ==
    \A r1, r2 \in rows : r1.migration_name = r2.migration_name => r1 = r2

\* A run executed a unit that had an unfinished row, and its insert was
\* refused.
C7_Witness ==
    \E p \in Procs :
        /\ pc[p] = "done"
        /\ \E i \in Ops(p, {"insertFail"}) :
             /\ storeFault # "insert"
             /\ \E r \in rows : r.migration_name = trace[p][i].unit /\ r.finished_at = FALSE

NoScript(c) == {n \in Names : units[c][n] = "noscript"}

\* C8: a directory without migration.sql is only ever skipped by a run: its
\* script is not read or executed, it gets no row, the run does not end on
\* it with an error, it is not counted, and a pending unit with a script
\* after it is applied in the same run unless the failure of a unit ends the
\* run.
C8_SkipMissingScript ==
    \A p \in Procs :
        (pc[p] # "idle" /\ migrationsDirResolved[p] \in Candidates) =>
            \A X \in NoScript(migrationsDirResolved[p]) :
                /\ \A j \in DOMAIN trace[p] :
                      trace[p][j].unit = X => trace[p][j].op \in {"skipNoScript", "skipApplied"}
                /\ RowsOf(rows, X) = RowsOf(startRows[p], X)
                /\ (pc[p] = "done" /\ trace[p] # <<>> /\ trace[p][Len(trace[p])].unit = X)
                      => exitCode[p] = 0
                /\ (pc[p] = "done" /\ exitCode[p] = 0) =>
                      /\ appliedCount[p] = Cardinality(Ops(p, {"insert"}))
                      /\ ~Did(p, "insert", X)
                /\ pc[p] = "done" =>
                      \A Y \in ScriptBearing(migrationsDirResolved[p]) :
                         (LexBefore(X, Y) /\ Y \notin FinishedNames(startRows[p])) =>
                            \/ Did(p, "insert", Y)
                            \/ Ops(p, UnitFailOps) # {}

\* A run skipped a directory without script and then applied a later unit.
C8_Witness ==
    \E p \in Procs :
        /\ pc[p] = "done"
        /\ exitCode[p] = 0
        /\ \E i \in Ops(p, {"skipNoScript"}), j \in Ops(p, {"insert"}) : i < j

PendingAtStart(p) ==
    ScriptBearing(migrationsDirResolved[p]) \ FinishedNames(startRows[p])

\* C9: the count of a run that ends with status 0 is the number of rows the
\* run inserted, which is the number of units that have a script and were
\* not applied when it started; a run that opened the store and found a root
\* with nothing pending in it ends with count 0 and status 0.
C9_AppliedCount ==
    \A p \in Procs :
        /\ (pc[p] = "done" /\ exitCode[p] = 0) =>
              /\ appliedCount[p] = Cardinality(Ops(p, {"insert"}))
              /\ appliedCount[p] = Cardinality(rows \ startRows[p])
              /\ appliedCount[p] = Cardinality(PendingAtStart(p))
        /\ (/\ pc[p] = "done"
            /\ Ops(p, {"openFail", "rootFail"}) = {}
            /\ PendingAtStart(p) = {}) =>
              appliedCount[p] = 0 /\ exitCode[p] = 0

\* A successful run that skipped an applied unit and applied two.
C9_Witness ==
    \E p \in Procs :
        /\ pc[p] = "done"
        /\ exitCode[p] = 0
        /\ appliedCount[p] = 2
        /\ Ops(p, {"skipApplied"}) # {}

\* C10: a run ends with status 0 only if nothing failed in it, and then
\* every unit of its root that has a script has a finished record.
C10_NoPartialSuccess ==
    \A p \in Procs :
        (pc[p] = "done" /\ exitCode[p] = 0) =>
            /\ Ops(p, FailOps) = {}
            /\ storeFault # "open"
            /\ migrationsDirResolved[p] \in Candidates
            /\ rootExists[migrationsDirResolved[p]]
            /\ ScriptBearing(migrationsDirResolved[p]) \subseteq FinishedNames(rows)

\* A successful run after a failed one, all three units applied.
C10_Witness ==
    \E p \in Procs :
        /\ pc[p] = "done"
        /\ exitCode[p] = 0
        /\ prev[p].exitCode = 1
        /\ ScriptBearing(migrationsDirResolved[p]) = Names
        /\ Ops(p, {"insert"}) # {}

\* C11: a process started with a token other than `migrate` and `serve`
\* prints the usage text and ends at once, with status 0 for `--help` and
\* `-h` and 1 for anything else; it opens no store, leaves the tracking
\* table, its rows and the schema as they were, executes nothing and starts
\* no server.
C11_UsageOnly ==
    /\ [](\A p \in Procs :
            command[p] \notin {"migrate", "serve"} =>
                /\ opened[p] = "none"
                /\ Ops(p, {"read", "readFail", "exec", "execFail", "insert", "insertFail"}) = {}
                /\ pc[p] \in {"idle", "done"})
    /\ [][\A p \in Procs :
            (runs' = runs + 1 /\ command'[p] \notin {"migrate", "serve"} /\ pc'[p] = "done") =>
                /\ trace'[p] = <<Ev("usage", <<>>)>>
                /\ exitCode'[p] = (IF command'[p] \in {"--help", "-h"} THEN 0 ELSE 1)
                /\ tableExists' = tableExists
                /\ rows' = rows
                /\ schema' = schema
                /\ server' = server]_vars

\* `--help` after a migrate run that applied something: status 0, the rows
\* still there.
C11_Witness ==
    \E p \in Procs :
        /\ pc[p] = "done"
        /\ command[p] = "--help"
        /\ exitCode[p] = 0
        /\ trace[p] = <<Ev("usage", <<>>)>>
        /\ rows # {}
        /\ rows = startRows[p]

\* C12: in the container the server is up only after the migrate process
\* before it has ended with status 0; once migrate has ended with another
\* status the server is not started.
C12_ServeAfterMigrate ==
    /\ [](\A p \in Procs :
            server[p] # "off" =>
                pc[p] = "done" /\ command[p] = "migrate" /\ exitCode[p] = 0)
    /\ [][\A p \in Procs :
            (pc[p] = "done" /\ exitCode[p] # 0) => server'[p] = "off"]_vars

\* The server is up after a migrate run that applied a unit.
C12_Witness ==
    \E p \in Procs :
        /\ server[p] # "off"
        /\ exitCode[p] = 0
        /\ Ops(p, {"insert"}) # {}

\* C13: with DATABASE_URL set, the store migrate opens is the external
\* database and never the embedded one at PGLITE_DIR, and the server works on
\* the store migrate worked on.
C13_SameStore ==
    \A p \in Procs :
        databaseUrl =>
            /\ opened[p] \in {"none", "external"}
            /\ (server[p] # "off" /\ opened[p] # "none") => server[p] = opened[p]

\* Names that have a row in rs, none of them finished.
UnfinishedOnly(rs) == {n \in Names : RowsOf(rs, n) # {}} \ FinishedNames(rs)

\* C14: a row whose finished_at is unset does not count as applied: the
\* applied set of a run is exactly the names with a finished row, a unit
\* that has only an unfinished row is never skipped as applied, and when the
\* run reads its script it executes it.
C14_UnfinishedIsPending ==
    \A p \in Procs :
        /\ pc[p] \in {"loop", "exec", "insert"} => appliedSet[p] = FinishedNames(startRows[p])
        /\ \A n \in UnfinishedOnly(startRows[p]) :
              /\ ~Did(p, "skipApplied", n)
              /\ (pc[p] = "done" /\ Did(p, "read", n)) =>
                    Did(p, "exec", n) \/ Did(p, "execFail", n)
              /\ (pc[p] = "done" /\ exitCode[p] = 0
                    /\ n \in ScriptBearing(migrationsDirResolved[p])) => Did(p, "exec", n)

\* A run met a unit that has only an unfinished row and executed its script.
C14_Witness ==
    \E p \in Procs : \E n \in UnfinishedOnly(startRows[p]) :
        /\ pc[p] = "done"
        /\ Did(p, "exec", n)

\* Number of times run p executed statement st.
ExecutedBy(p, st) ==
    IF Did(p, "exec", st[1]) \/ (Did(p, "execFail", st[1]) /\ st[2] = 1) THEN 1 ELSE 0

\* C15: nothing is rolled back. At the end of a run the schema holds every
\* statement the run executed, those of a script that failed part-way
\* included, and the table holds the rows that were there plus one per
\* insert; after a failed script or a failed insert the run writes nothing
\* more; the next run starts from that schema.
C15_NoRollback ==
    \A p \in Procs :
        /\ (pc[p] = "done" /\ command[p] = "migrate") =>
              /\ \A st \in Stmts : schema[st] = startSchema[p][st] + ExecutedBy(p, st)
              /\ startRows[p] \subseteq rows
              /\ {r.migration_name : r \in rows \ startRows[p]} =
                     Range(UnitsOf(trace[p], {"insert"}))
              /\ \A i \in Ops(p, {"execFail", "insertFail"}) : i = Len(trace[p])
        /\ (pc[p] \notin {"idle", "done"} /\ prev[p].exitCode # -1) =>
              startSchema[p] = prev[p].schema

\* A run has started on a schema that holds the first statement of the
\* script that failed in the run before, and not its second.
C15_Witness ==
    \E p \in Procs : \E F \in Names :
        /\ pc[p] \notin {"idle", "done"}
        /\ prev[p].trace # <<>>
        /\ prev[p].trace[Len(prev[p].trace)] = Ev("execFail", F)
        /\ startSchema[p][<<F, 1>>] = 1
        /\ startSchema[p][<<F, 2>>] = 0

\* C16: the run after the fix of F does not execute again a statement of
\* F's script whose effect persisted from the failed run.
C16_NoReplay ==
    \A p \in Procs : \A F \in Names :
        ResumesAfterFix(p, F) =>
            \A st \in Stmts :
                (st[1] = F /\ startSchema[p][st] > 0) => schema[st] = startSchema[p][st]

\* The candidate a run has to use: the one under the working directory when
\* it exists, else the one beside the executable when that exists.
RootToUse ==
    IF rootExists["cwd"] THEN "cwd" ELSE IF rootExists["exec"] THEN "exec" ELSE ""

\* C17: the migrations root of a run is the first candidate that exists,
\* working directory before executable directory, and every unit the run
\* lists, skips, reads, executes or records is an entry of that candidate;
\* when no candidate exists the run ends with status 1 having executed no
\* script and inserted no row.
C17_RootResolution ==
    \A p \in Procs :
        /\ pc[p] \in {"list", "query", "loop", "exec", "insert"} =>
              /\ RootToUse # ""
              /\ migrationsDirResolved[p] = RootToUse
        /\ (pc[p] # "idle" /\ RootToUse # "") =>
              /\ \A i \in DOMAIN dirs[p] : units[RootToUse][dirs[p][i]] # "absent"
              /\ \A i \in DOMAIN trace[p] :
                    trace[p][i].unit # <<>> => units[RootToUse][trace[p][i].unit] # "absent"
              /\ \A i \in Ops(p, {"read", "readFail"} \cup ExecOps) :
                    trace[p][i].unit \in ScriptBearing(RootToUse)
        /\ (pc[p] = "done" /\ command[p] = "migrate" /\ RootToUse = ""
              /\ Ops(p, {"openFail"}) = {}) =>
              /\ exitCode[p] = 1
              /\ trace[p] = <<Ev("rootFail", <<>>)>>
              /\ rows = startRows[p]
              /\ schema = startSchema[p]

\* Both candidates exist, the one beside the executable holds a unit with a
\* script that the one under the working directory lacks, and the run ended
\* having applied a unit of the working directory's candidate only.
C17_Witness ==
    \E p \in Procs : \E n, m \in Names :
        /\ pc[p] = "done"
        /\ rootExists["cwd"] /\ rootExists["exec"]
        /\ units["exec"][n] = "ok" /\ units["cwd"][n] = "absent"
        /\ Did(p, "insert", m)
        /\ ~Did(p, "read", n)

\* C18: with the units of the migrations root fixed and the table empty at
\* first, whatever fails in whatever run, no unit is recorded applied while
\* a lexically earlier unit that has a script is not, and only units that
\* have a script are recorded.
C18_AppliedPrefix ==
    /\ FinishedNames(rows) \subseteq ScriptBearing("cwd")
    /\ \A n \in FinishedNames(rows) : \A m \in ScriptBearing("cwd") :
          LexBefore(m, n) => m \in FinishedNames(rows)

\* A second run ended after a failure, with a proper, non-empty prefix of
\* the units that have a script applied.
C18_Witness ==
    \E p \in Procs :
        /\ pc[p] = "done"
        /\ prev[p].exitCode = 1
        /\ exitCode[p] = 1
        /\ FinishedNames(rows) # {}
        /\ FinishedNames(rows) # ScriptBearing("cwd")
        /\ FinishedNames(rows) # FinishedNames(startRows[p])

\* Events of run p that concern unit n.
Reached(p, n) == \E i \in DOMAIN trace[p] : trace[p][i].unit = n

\* C19: while the table holds only an unfinished row for a unit X that has
\* a script, a run that reaches X ends at X with status 1: it executes the
\* script and the insert is rejected (or the script cannot be read or fails
\* when executed); X does not become applied and no unit after X becomes
\* applied, in any run.
C19_UnfinishedBlocks ==
    /\ [](\A p \in Procs : \A X \in UnfinishedOnly(startRows[p]) :
            (pc[p] = "done" /\ Reached(p, X) /\ X \in ScriptBearing(migrationsDirResolved[p])) =>
                /\ exitCode[p] = 1
                /\ trace[p][Len(trace[p])].unit = X
                /\ trace[p][Len(trace[p])].op \in UnitFailOps
                /\ Did(p, "exec", X) <=> trace[p][Len(trace[p])].op = "insertFail"
                /\ units[migrationsDirResolved[p]][X] = "ok" => Did(p, "exec", X)
                /\ ~Did(p, "insert", X))
    /\ [][\A X \in UnfinishedOnly(rows) \cap ScriptBearing("cwd") :
            /\ X \notin FinishedNames(rows')
            /\ \A m \in Names :
                  (LexBefore(X, m) /\ m \notin FinishedNames(rows)) =>
                      m \notin FinishedNames(rows')]_vars

\* A run reached the unit with the unfinished row, executed its script and
\* failed on the insert with the store in order, a later unit with a script
\* still waiting; the run before had failed as well.
C19_Witness ==
    \E p \in Procs : \E X \in UnfinishedOnly(startRows[p]) : \E m \in ScriptBearing("cwd") :
        /\ pc[p] = "done"
        /\ trace[p][Len(trace[p])] = Ev("insertFail", X)
        /\ Did(p, "exec", X)
        /\ prev[p].exitCode = 1
        /\ storeFault = "none"
        /\ LexBefore(X, m)
        /\ m \notin FinishedNames(rows)

\* C20: with two runs interleaved on one store the table never holds two
\* rows for one unit, although both runs may execute the same script; of two
\* runs that both executed the script of X at most one records X, and when
\* both have ended exactly one has recorded it and the other has ended on
\* the rejected insert of X with status 1, having attempted no later unit.
C20_OneInsertWins ==
    /\ \A n \in Names : \A r1, r2 \in RowsOf(rows, n) : r1 = r2
    /\ \A p, q \in Procs : \A X \in Names :
          (p # q /\ Did(p, "exec", X) /\ Did(q, "exec", X)) =>
              /\ ~(Did(p, "insert", X) /\ Did(q, "insert", X))
              /\ (pc[p] = "done" /\ pc[q] = "done" /\ ~Did(p, "insert", X)) =>
                    /\ Did(q, "insert", X)
                    /\ trace[p][Len(trace[p])] = Ev("insertFail", X)
                    /\ exitCode[p] = 1
                    /\ \A i \in DOMAIN trace[p] : ~LexBefore(X, trace[p][i].unit)

\* Both runs executed the script of X; one recorded it and went on to apply
\* a later unit, the other ended on the rejected insert.
C20_Witness ==
    \E p, q \in Procs : \E X, m \in Names :
        /\ p # q
        /\ pc[p] = "done" /\ pc[q] = "done"
        /\ Did(p, "exec", X) /\ Did(q, "exec", X)
        /\ Did(q, "insert", X)
        /\ trace[p][Len(trace[p])] = Ev("insertFail", X)
        /\ LexBefore(X, m)
        /\ Did(q, "insert", m)
        /\ schema[<<X, 1>>] = 2

Migrate(p) ==
    \/ Start(p)
    \/ OpenStore(p)
    \/ EnsureTable(p)
    \/ ResolveRoot(p)
    \/ ListDirs(p)
    \/ QueryApplied(p)
    \/ SkipApplied(p)
    \/ SkipNoScript(p)
    \/ ReadScript(p)
    \/ ExecScript(p)
    \/ InsertRecord(p)
    \/ Finish(p)

Env ==
    \/ \E n \in Names : EnvFixScript(n)
    \/ \E n \in Names : EnvBreakScript(n)
    \/ \E n \in Names, k \in Kinds : EnvAddUnit(n, k)
    \/ \E c \in Candidates : EnvSetRoot(c)
    \/ \E f \in Faults : EnvSetFault(f)
    \/ \E n \in Names : EnvUnfinishedRow(n)

\* The migrations root stays where it is and keeps its units: scripts are
\* fixed or become unreadable, the store fails or recovers, rows are written
\* from outside, but no unit is authored and no candidate comes or goes.
EnvFixedRoot ==
    \/ \E n \in Names : EnvFixScript(n)
    \/ \E n \in Names : EnvBreakScript(n)
    \/ \E f \in Faults : EnvSetFault(f)
    \/ \E n \in Names : EnvUnfinishedRow(n)

NextFixedRoot ==
    \/ \E p \in SeqProcs : Migrate(p)
    \/ EnvFixedRoot

SpecFixedRoot == Init /\ [][NextFixedRoot]_vars

\* Two migrate processes on one store, their steps interleaved in any way:
\* nothing in migrate() takes a lock.
NextConc == \E p \in Procs : Migrate(p)

SpecConc == Init /\ [][NextConc]_vars

\* The command line, any token at any launch.
InitCli ==
    /\ InitProcess
    /\ units \in {[c \in Candidates |-> IF c = "cwd" THEN u ELSE ExecRoot] :
                    u \in InitRoots}
    /\ databaseUrl \in BOOLEAN

NextCli ==
    \/ \E p \in SeqProcs : Migrate(p)
    \/ \E p \in SeqProcs, tok \in Tokens : Usage(p, tok)
    \/ \E p \in SeqProcs : Serve(p)

SpecCli == InitCli /\ [][NextCli]_vars

\* The image's CMD, with and without DATABASE_URL in the container's
\* environment; migrate runs only while the container's server is not up.
InitDeploy ==
    /\ InitProcess
    /\ units \in {[c \in Candidates |-> IF c = "cwd" THEN u ELSE ExecRoot] :
                    u \in InitRoots}
    /\ databaseUrl \in BOOLEAN

NextDeploy ==
    \/ \E p \in SeqProcs : server[p] = "off" /\ Migrate(p)
    \/ \E p \in SeqProcs : CmdServe(p)
    \/ \E p \in SeqProcs : ContainerStop(p)

SpecDeploy == InitDeploy /\ [][NextDeploy]_vars

\* One migrate process at a time, as the deployment runs it.
Next ==
    \/ \E p \in SeqProcs : Migrate(p)
    \/ Env

Spec == Init /\ [][Next]_vars
====
